---- MODULE Spec2Model ----
(***************************************************************************)
(* Ticket Tracking System (src/ticket_tracking_system.py).                 *)
(*                                                                         *)
(* The store is three Python lists of ticket dicts.  Lists hold            *)
(* references, so the dicts live in a heap (a sequence of records) and the *)
(* lists are sequences of heap indices.  Every call of the module's API is *)
(* one action; its outcome (return value or raised exception) is recorded  *)
(* in the variable result.                                                 *)
(***************************************************************************)
EXTENDS Integers, Sequences, FiniteSets

VARIABLES
    heap,          \* the ticket dicts, by reference (1..Len(heap))
    tickets,       \* main(): tickets, a list of references
    escalated,     \* main(): escalated, a list of references
    active_queue,  \* main(): active_queue, a list of references
    queue_src,     \* history: for each queue entry, the reference tickets[index] its add named
    result,        \* outcome of the last call: function, ok / exception, message, return value
    nmut           \* number of successful mutations of the ticket list so far

vars == <<heap, tickets, escalated, active_queue, queue_src, result, nmut>>

store == <<heap, tickets, escalated, active_queue, queue_src>>

(***************************************************************************)
(* Bounds of the model.                                                    *)
(***************************************************************************)
\* successful add_ticket / remove_ticket / update_ticket calls and merges of escalated
\* in one run (queue operations and queries are not counted)
MaxMut == 1

(***************************************************************************)
(* Python values: int, bool (a subclass of int), float, str, None.         *)
(***************************************************************************)
PyInt(n) == [k |-> "int", n |-> n, s |-> ""]

PyBool(b) == [k |-> "bool", n |-> IF b THEN 1 ELSE 0, s |-> ""]

PyFloat(n) == [k |-> "float", n |-> n, s |-> ""]

PyStr(s) == [k |-> "str", n |-> 0, s |-> s]

PyNone == [k |-> "none", n |-> 0, s |-> ""]

\* isinstance(v, int): true of int and of bool
IsInstanceInt(v) == v.k \in {"int", "bool"}

IsNumber(v) == v.k \in {"int", "bool", "float"}

\* v == w in Python: numbers compare by value, strings by content, None only to None
PyEq(v, w) ==
    \/ IsNumber(v) /\ IsNumber(w) /\ v.n = w.n
    \/ v.k = "str" /\ w.k = "str" /\ v.s = w.s
    \/ v.k = "none" /\ w.k = "none"

\* v in [s1, s2, ...] for a list of string literals
PyInStrs(v, strs) == \E i \in 1..Len(strs) : PyEq(v, PyStr(strs[i]))

Min(S) == CHOOSE x \in S : \A y \in S : x <= y

(***************************************************************************)
(* Strings as sequences of characters, for lower(), "in", "<" and int().   *)
(***************************************************************************)
\* the characters of each string literal the model uses
CharsCase(s) ==
    CASE s = "Payment not processing" -> <<"P", "a", "y", "m", "e", "n", "t", " ", "n", "o", "t", " ", "p", "r", "o", "c", "e", "s", "s", "i", "n", "g">>
      [] s = "Reset password" -> <<"R", "e", "s", "e", "t", " ", "p", "a", "s", "s", "w", "o", "r", "d">>
      [] s = "Application crashes" -> <<"A", "p", "p", "l", "i", "c", "a", "t", "i", "o", "n", " ", "c", "r", "a", "s", "h", "e", "s">>
      [] s = "Add dark mode" -> <<"A", "d", "d", " ", "d", "a", "r", "k", " ", "m", "o", "d", "e">>
      [] s = "Renewal failed" -> <<"R", "e", "n", "e", "w", "a", "l", " ", "f", "a", "i", "l", "e", "d">>
      [] s = "Security breach" -> <<"S", "e", "c", "u", "r", "i", "t", "y", " ", "b", "r", "e", "a", "c", "h">>
      [] s = "Double-charged" -> <<"D", "o", "u", "b", "l", "e", "-", "c", "h", "a", "r", "g", "e", "d">>
      [] s = "Crash on login" -> <<"C", "r", "a", "s", "h", " ", "o", "n", " ", "l", "o", "g", "i", "n">>
      [] s = "T001" -> <<"T", "0", "0", "1">>
      [] s = "T002" -> <<"T", "0", "0", "2">>
      [] s = "T003" -> <<"T", "0", "0", "3">>
      [] s = "T004" -> <<"T", "0", "0", "4">>
      [] s = "T005" -> <<"T", "0", "0", "5">>
      [] s = "E001" -> <<"E", "0", "0", "1">>
      [] s = "E002" -> <<"E", "0", "0", "2">>
      [] s = "T006" -> <<"T", "0", "0", "6">>
      [] s = "technical" -> <<"t", "e", "c", "h", "n", "i", "c", "a", "l">>
      [] s = "billing" -> <<"b", "i", "l", "l", "i", "n", "g">>
      [] s = "general" -> <<"g", "e", "n", "e", "r", "a", "l">>
      [] s = "account" -> <<"a", "c", "c", "o", "u", "n", "t">>
      [] s = "feature" -> <<"f", "e", "a", "t", "u", "r", "e">>
      [] s = "bogus" -> <<"b", "o", "g", "u", "s">>
      [] s = "new" -> <<"n", "e", "w">>
      [] s = "open" -> <<"o", "p", "e", "n">>
      [] s = "resolved" -> <<"r", "e", "s", "o", "l", "v", "e", "d">>
      [] s = "closed" -> <<"c", "l", "o", "s", "e", "d">>
      [] s = "pending" -> <<"p", "e", "n", "d", "i", "n", "g">>
      [] s = "crash" -> <<"c", "r", "a", "s", "h">>
      [] s = "PAY" -> <<"P", "A", "Y">>
      [] s = "zzz" -> <<"z", "z", "z">>
      [] s = "" -> <<>>
      [] s = "1" -> <<"1">>
      [] s = "2" -> <<"2">>
      [] s = "3" -> <<"3">>
      [] s = "0" -> <<"0">>
      [] s = "7" -> <<"7">>
      [] s = "abc" -> <<"a", "b", "c">>
      [] s = " 4 " -> <<" ", "4", " ">>
      [] s = "-1" -> <<"-", "1">>
      [] s = "2.5" -> <<"2", ".", "5">>
      [] s = "+2" -> <<"+", "2">>
      [] s = "id" -> <<"i", "d">>
      [] s = "title" -> <<"t", "i", "t", "l", "e">>
      [] s = "type" -> <<"t", "y", "p", "e">>
      [] s = "priority" -> <<"p", "r", "i", "o", "r", "i", "t", "y">>
      [] s = "status" -> <<"s", "t", "a", "t", "u", "s">>
      [] s = "keyword" -> <<"k", "e", "y", "w", "o", "r", "d">>
      [] s = "owner" -> <<"o", "w", "n", "e", "r">>
      [] s = "add" -> <<"a", "d", "d">>
      [] s = "remove" -> <<"r", "e", "m", "o", "v", "e">>
      [] s = "REMOVE" -> <<"R", "E", "M", "O", "V", "E">>
      [] s = "y" -> <<"y">>
      [] s = "Y" -> <<"Y">>
      [] s = "n" -> <<"n">>

Strings ==
    {"Payment not processing", "Reset password", "Application crashes", "Add dark mode",
     "Renewal failed", "Security breach", "Double-charged", "Crash on login", "T001",
     "T002", "T003", "T004", "T005", "E001", "E002", "T006", "technical", "billing",
     "general", "account", "feature", "bogus", "new", "open", "resolved", "closed",
     "pending", "crash", "PAY", "zzz", "", "1", "2", "3", "0", "7", "abc", " 4 ", "-1",
     "2.5", "+2", "id", "title", "type", "priority", "status", "keyword", "owner",
     "add", "remove", "REMOVE", "y", "Y", "n"}

CharsOf == [s \in Strings |-> CharsCase(s)]

Chars(s) == CharsOf[s]

\* the printable ASCII characters, code points 32..126 in order (code 96, the backtick,
\* cannot be written in a TLA+ string and is held by a placeholder no string contains)
Printable ==
    <<
       " ", "!", "\"", "#", "$", "%", "&", "'", "(", ")", "*", "+", ",", "-", ".", "/",
       "0", "1", "2", "3", "4", "5", "6", "7", "8", "9", ":", ";", "<", "=", ">", "?",
       "@", "A", "B", "C", "D", "E", "F", "G", "H", "I", "J", "K", "L", "M", "N", "O",
       "P", "Q", "R", "S", "T", "U", "V", "W", "X", "Y", "Z", "[", "\\", "]", "^", "_",
       "(backtick)", "a", "b", "c", "d", "e", "f", "g", "h", "i", "j", "k", "l", "m", "n", "o",
       "p", "q", "r", "s", "t", "u", "v", "w", "x", "y", "z", "{", "|", "}", "~"
    >>

OrdOf ==
    [c \in {Printable[i] : i \in 1..Len(Printable)} |->
        31 + (CHOOSE i \in 1..Len(Printable) : Printable[i] = c)]

\* ord(c)
Ord(c) == OrdOf[c]

\* str.lower() on one character
LowerChar(c) == IF Ord(c) \in 65..90 THEN Printable[Ord(c) + 32 - 31] ELSE c

LowerOf == [s \in Strings |-> [i \in 1..Len(Chars(s)) |-> LowerChar(Chars(s)[i])]]

\* s.lower()
Lower(s) == LowerOf[s]

\* needle in hay (substring test)
Contains(hay, needle) ==
    \E i \in 0..(Len(hay) - Len(needle)) :
        \A j \in 1..Len(needle) : hay[i + j] = needle[j]

\* a < b on str: lexicographic by code point
StrLess(a, b) ==
    LET m == IF Len(a) < Len(b) THEN Len(a) ELSE Len(b)
        d == {i \in 1..m : a[i] # b[i]}
    IN  IF d = {} THEN Len(a) < Len(b)
        ELSE Ord(a[Min(d)]) < Ord(b[Min(d)])

(***************************************************************************)
(* int(value), as update_ticket and filter_tickets call it.                *)
(***************************************************************************)
Max(S) == CHOOSE x \in S : \A y \in S : y <= x

Digits == <<"0", "1", "2", "3", "4", "5", "6", "7", "8", "9">>

IsDigit(c) == \E i \in 1..Len(Digits) : Digits[i] = c

DigitVal(c) == (CHOOSE i \in 1..Len(Digits) : Digits[i] = c) - 1

RECURSIVE DigitsValue(_)
DigitsValue(ds) ==
    IF ds = <<>> THEN 0
    ELSE 10 * DigitsValue(SubSeq(ds, 1, Len(ds) - 1)) + DigitVal(ds[Len(ds)])

\* str.strip() of blanks
Strip(cs) ==
    LET idx == {i \in 1..Len(cs) : cs[i] # " "}
    IN  IF idx = {} THEN <<>> ELSE SubSeq(cs, Min(idx), Max(idx))

\* int(s) for a str: blanks stripped, an optional sign, then decimal digits
IntOfStr(s) ==
    LET cs     == Strip(Chars(s))
        signed == cs # <<>> /\ cs[1] \in {"+", "-"}
        ds     == IF signed THEN Tail(cs) ELSE cs
    IN  IF ds # <<>> /\ \A i \in 1..Len(ds) : IsDigit(ds[i])
        THEN [exc |-> "", n |-> IF signed /\ cs[1] = "-" THEN 0 - DigitsValue(ds)
                                                          ELSE DigitsValue(ds)]
        ELSE [exc |-> "ValueError", n |-> 0]

\* int(v): a str is parsed, a number is taken by value, None raises TypeError
IntOf(v) ==
    IF v.k = "str" THEN IntOfStr(v.s)
    ELSE IF IsNumber(v) THEN [exc |-> "", n |-> v.n]
    ELSE [exc |-> "TypeError", n |-> 0]

(***************************************************************************)
(* Python list operations on sequences of references.                      *)
(***************************************************************************)
\* the 1-based position a Python index denotes (a negative index counts from the end)
PyPos(list, index) == IF index < 0 THEN Len(list) + index + 1 ELSE index + 1

\* list.pop(index): the list without that position
ListPop(list, index) ==
    SubSeq(list, 1, PyPos(list, index) - 1)
        \o SubSeq(list, PyPos(list, index) + 1, Len(list))

\* list[index]
ListGet(list, index) == list[PyPos(list, index)]

(***************************************************************************)
(* Outcomes of a call.                                                     *)
(***************************************************************************)
\* the list object tickets itself (add_ticket returns its argument)
RetTickets == [kind |-> "tickets", list |-> <<>>, ref |-> 0]

\* the list object active_queue itself
RetQueue == [kind |-> "active_queue", list |-> <<>>, ref |-> 0]

\* a list created by the call
RetNew(list) == [kind |-> "newlist", list |-> list, ref |-> 0]

\* one ticket dict, by reference
RetTicket(ref) == [kind |-> "ticket", list |-> <<>>, ref |-> ref]

RetNone == [kind |-> "none", list |-> <<>>, ref |-> 0]

Ok(op, ret) == [op |-> op, status |-> "ok", msg |-> "", ret |-> ret]

Raise(op, exc, msg) == [op |-> op, status |-> exc, msg |-> msg, ret |-> RetNone]

(***************************************************************************)
(* initialize_data                                                         *)
(***************************************************************************)
Ticket(id, title, type, priority, status) ==
    [id |-> PyStr(id), title |-> PyStr(title), type |-> PyStr(type),
     priority |-> PyInt(priority), status |-> PyStr(status)]

InitTickets ==
    << Ticket("T001", "Payment not processing", "billing", 2, "open"),
       Ticket("T002", "Reset password", "account", 3, "new"),
       Ticket("T003", "Application crashes", "technical", 1, "open"),
       Ticket("T004", "Add dark mode", "feature", 4, "new"),
       Ticket("T005", "Renewal failed", "billing", 2, "open") >>

InitEscalated ==
    << Ticket("E001", "Security breach", "technical", 1, "new"),
       Ticket("E002", "Double-charged", "billing", 1, "new") >>

Init ==
    /\ heap = InitTickets \o InitEscalated
    /\ tickets = [i \in 1..Len(InitTickets) |-> i]
    /\ escalated = [i \in 1..Len(InitEscalated) |-> Len(InitTickets) + i]
    /\ active_queue = <<>>
    /\ queue_src = <<>>
    /\ result = Ok("initialize_data", RetNone)
    /\ nmut = 0

(***************************************************************************)
(* add_ticket(tickets, ticket)                                             *)
(***************************************************************************)
required_fields == <<"id", "title", "type", "priority", "status">>

valid_types == <<"technical", "billing", "general", "account", "feature">>

valid_statuses == <<"new", "open", "resolved", "closed">>

MissingFields(ticket) ==
    {i \in 1..Len(required_fields) : required_fields[i] \notin DOMAIN ticket}

\* as PriorityOutOfRange, the lower end of the range not checked
PriorityOutOfRangeNoLow(p) == ~IsInstanceInt(p) \/ p.n > 4

PriorityOutOfRange(p) == ~IsInstanceInt(p) \/ p.n < 1 \/ p.n > 4

\* as AddTicketError, the status never validated
AddTicketErrorNoStatus(ticket) ==
    IF MissingFields(ticket) # {}
    THEN "Ticket is missing required field: "
             \o required_fields[Min(MissingFields(ticket))]
    ELSE IF ~PyInStrs(ticket.type, valid_types)
    THEN "Invalid ticket type. Must be one of: technical, billing, general, account, feature"
    ELSE IF PriorityOutOfRange(ticket.priority)
    THEN "Priority must be an integer between 1 and 4"
    ELSE ""

\* the message of the ValueError add_ticket raises for this ticket, "" when it raises none
AddTicketError(ticket) ==
    IF MissingFields(ticket) # {}
    THEN "Ticket is missing required field: "
             \o required_fields[Min(MissingFields(ticket))]
    ELSE IF ~PyInStrs(ticket.type, valid_types)
    THEN "Invalid ticket type. Must be one of: technical, billing, general, account, feature"
    ELSE IF PriorityOutOfRange(ticket.priority)
    THEN "Priority must be an integer between 1 and 4"
    ELSE IF ~PyInStrs(ticket.status, valid_statuses)
    THEN "Invalid status. Must be one of: new, open, resolved, closed"
    ELSE ""

\* the tickets a caller passes: dicts over some of the field names
BaseTicket == Ticket("T006", "Crash on login", "general", 3, "new")

Without(ticket, field) == [f \in (DOMAIN ticket) \ {field} |-> ticket[f]]

With(ticket, field, v) == [f \in (DOMAIN ticket) \cup {field} |-> IF f = field THEN v ELSE ticket[f]]

TicketInputs ==
    {BaseTicket,
     With(BaseTicket, "id", PyStr("T001")),
     With(BaseTicket, "status", PyStr("closed")),
     With(BaseTicket, "status", PyStr("pending")),
     With(BaseTicket, "status", PyNone),
     With(BaseTicket, "type", PyStr("bogus"))}
    \cup {With(BaseTicket, "priority", p) :
            p \in {PyInt(0), PyInt(4), PyInt(5), PyStr("2"),
                   PyBool(TRUE), PyBool(FALSE), PyFloat(2), PyNone}}
    \cup {Without(BaseTicket, required_fields[i]) : i \in 1..Len(required_fields)}
    \cup {Without(With(BaseTicket, "type", PyStr("bogus")), "status")}

AddTicket(ticket) ==
    IF AddTicketError(ticket) # ""
    THEN /\ result' = Raise("add_ticket", "ValueError", AddTicketError(ticket))
         /\ UNCHANGED <<store, nmut>>
    ELSE /\ nmut < MaxMut
         /\ heap' = Append(heap, ticket)
         /\ tickets' = Append(tickets, Len(heap) + 1)
         /\ result' = Ok("add_ticket", RetTickets)
         /\ nmut' = nmut + 1
         /\ UNCHANGED <<escalated, active_queue, queue_src>>

(***************************************************************************)
(* remove_ticket(tickets, index)                                           *)
(***************************************************************************)
\* as IndexOutOfRange, negative indices let through (list.pop(-1) then takes the last entry)
IndexOutOfRangeHigh(index, list) == index >= Len(list)

IndexOutOfRange(index, list) == index < 0 \/ index >= Len(list)

\* the indices a caller passes for a list: every valid one, and one beyond each end
Indices(list) == (0 - 1)..Len(list)

RemoveTicket(index) ==
    IF IndexOutOfRange(index, tickets)
    THEN /\ result' = Raise("remove_ticket", "IndexError", "Index out of range")
         /\ UNCHANGED <<store, nmut>>
    ELSE /\ nmut < MaxMut
         /\ tickets' = ListPop(tickets, index)
         /\ result' = Ok("remove_ticket", RetTicket(ListGet(tickets, index)))
         /\ nmut' = nmut + 1
         /\ UNCHANGED <<heap, escalated, active_queue, queue_src>>

(***************************************************************************)
(* sort_tickets(tickets, key)                                              *)
(***************************************************************************)
valid_keys == <<"id", "priority", "status", "type">>

\* v < w for two values of one kind (numbers by value, strings by code point)
PyLess(v, w) ==
    IF IsNumber(v) /\ IsNumber(w) THEN v.n < w.n
    ELSE StrLess(Chars(v.s), Chars(w.s))

\* as InsertPos, r put before the entries with an equal key (an unstable sort)
InsertPosBeforeEqual(h, key, sorted, r) ==
    Cardinality({i \in 1..Len(sorted) : PyLess(h[sorted[i]][key], h[r][key])}) + 1

\* where list.sort puts r into an already sorted list: before the first entry
\* whose key is greater, so behind every entry with an equal key (stable)
InsertPos(h, key, sorted, r) ==
    Cardinality({i \in 1..Len(sorted) : ~PyLess(h[r][key], h[sorted[i]][key])}) + 1

InsertAt(list, pos, r) ==
    SubSeq(list, 1, pos - 1) \o <<r>> \o SubSeq(list, pos, Len(list))

\* list.sort(key=lambda ticket: ticket[key])
RECURSIVE ListSort(_, _, _)
ListSort(h, key, list) ==
    IF list = <<>> THEN <<>>
    ELSE LET front == ListSort(h, key, SubSeq(list, 1, Len(list) - 1))
             r     == list[Len(list)]
         IN  InsertAt(front, InsertPos(h, key, front, r), r)

\* what a valid call leaves in its argument and what it returns:
\* the copy is sorted, the argument is not touched
SortOutcome(h, key, list) ==
    [arg |-> list, ret |-> RetNew(ListSort(h, key, list))]

SortKeys == {"id", "priority", "status", "type", "title", "owner"}

SortTickets(key) ==
    IF ~PyInStrs(PyStr(key), valid_keys)
    THEN /\ result' = Raise("sort_tickets", "ValueError",
                            "Invalid sort key. Must be one of: id, priority, status, type")
         /\ UNCHANGED <<store, nmut>>
    ELSE LET out == SortOutcome(heap, key, tickets)
         IN  /\ tickets' = out.arg
             /\ result' = Ok("sort_tickets", out.ret)
             /\ UNCHANGED <<heap, escalated, active_queue, queue_src, nmut>>

(***************************************************************************)
(* filter_tickets(tickets, filter_type, value)                             *)
(***************************************************************************)
valid_filters == <<"type", "status", "priority", "keyword">>

\* a list comprehension [ticket for ticket in list if cond] is SelectSeq(list, cond)

\* as KeywordMatch, the title not lowered
KeywordMatchTitleAsIs(h, r, value) ==
    Contains(Chars(h[r].title.s), Lower(value.s))

\* value.lower() in ticket["title"].lower()
KeywordMatch(h, r, value) ==
    Contains(Lower(h[r].title.s), Lower(value.s))

\* the outcome of filter_tickets on a list
FilterOutcome(h, list, filter_type, value) ==
    IF ~PyInStrs(PyStr(filter_type), valid_filters)
    THEN Raise("filter_tickets", "ValueError",
               "Invalid filter type. Must be one of: type, status, priority, keyword")
    ELSE IF filter_type = "keyword"
    THEN IF value.k # "str"
         THEN Raise("filter_tickets", "AttributeError", "object has no attribute 'lower'")
         ELSE Ok("filter_tickets",
                 RetNew(SelectSeq(list, LAMBDA r : KeywordMatch(h, r, value))))
    ELSE IF filter_type = "priority"
    THEN IF value.k = "str" /\ IntOfStr(value.s).exc # ""
         THEN Raise("filter_tickets", "ValueError",
                    "Priority value must be a number between 1 and 4")
         ELSE LET v == IF value.k = "str" THEN PyInt(IntOfStr(value.s).n) ELSE value
              IN  Ok("filter_tickets",
                     RetNew(SelectSeq(list, LAMBDA r : PyEq(h[r].priority, v))))
    ELSE Ok("filter_tickets",
            RetNew(SelectSeq(list, LAMBDA r : PyEq(h[r][filter_type], value))))

FilterInputs ==
    { <<"type", PyStr("billing")>>, <<"type", PyStr("general")>>, <<"type", PyStr("bogus")>>,
      <<"status", PyStr("open")>>, <<"status", PyStr("pending")>>,
      <<"priority", PyStr("2")>>, <<"priority", PyStr(" 4 ")>>, <<"priority", PyStr("7")>>,
      <<"priority", PyStr("abc")>>, <<"priority", PyStr("2.5")>>, <<"priority", PyInt(1)>>,
      <<"priority", PyFloat(3)>>, <<"priority", PyNone>>,
      <<"keyword", PyStr("crash")>>, <<"keyword", PyStr("PAY")>>, <<"keyword", PyStr("zzz")>>,
      <<"keyword", PyNone>>,
      <<"id", PyStr("T001")>>, <<"owner", PyStr("abc")>> }

FilterTickets(filter_type, value) ==
    /\ result' = FilterOutcome(heap, tickets, filter_type, value)
    /\ UNCHANGED <<store, nmut>>

(***************************************************************************)
(* combine_queues(tickets1, tickets2)                                      *)
(***************************************************************************)
\* as Combined, the first list left out of the result
CombinedSecondOnly(tickets1, tickets2) == tickets2

\* return tickets1 + tickets2: a new list holding the same dicts
Combined(tickets1, tickets2) == tickets1 \o tickets2

CombineQueues ==
    /\ result' = Ok("combine_queues", RetNew(Combined(tickets, escalated)))
    /\ UNCHANGED <<store, nmut>>

\* main(), choice 6 answered "y": the combined list becomes the ticket list
ProcessEscalated ==
    /\ nmut < MaxMut
    /\ tickets' = Combined(tickets, escalated)
    /\ escalated' = <<>>
    /\ result' = Ok("combine_queues", RetNew(Combined(tickets, escalated)))
    /\ nmut' = nmut + 1
    /\ UNCHANGED <<heap, active_queue, queue_src>>

(***************************************************************************)
(* get_priority_tickets(tickets, priority_level)                           *)
(***************************************************************************)
PriorityLevels ==
    {PyInt(0), PyInt(1), PyInt(2), PyInt(3), PyInt(4), PyInt(5), PyStr("2"), PyNone}

GetPriorityTickets(priority_level) ==
    /\ result' =
          IF PriorityOutOfRange(priority_level)
          THEN Raise("get_priority_tickets", "ValueError",
                     "Priority level must be between 1 and 4")
          ELSE Ok("get_priority_tickets",
                  RetNew(SelectSeq(tickets,
                                    LAMBDA r : PyEq(heap[r].priority, priority_level))))
    /\ UNCHANGED <<store, nmut>>

(***************************************************************************)
(* manage_queue(tickets, active_queue, operation, index=None)              *)
(***************************************************************************)
valid_operations == <<"add", "remove", "clear">>

\* the capacity of the active queue
QueueCapacity == 5

\* as QueueIsFull, off by one: full only above the capacity
QueueIsFullAbove(queue) == Len(queue) > QueueCapacity

QueueIsFull(queue) == Len(queue) >= QueueCapacity

\* as QueueAppend, the queue taking a copy of the dict: active_queue.append(dict(tickets[index]))
QueueAppendCopy(h, queue, ref) ==
    [heap |-> Append(h, h[ref]), queue |-> Append(queue, Len(h) + 1)]

\* active_queue.append(tickets[index]): the heap and the queue after it.
\* The list takes the reference; no dict is created.
QueueAppend(h, queue, ref) == [heap |-> h, queue |-> Append(queue, ref)]

\* as QueueRemove, the queue returned as add and clear return it
QueueRemoveReturnsQueue(queue, index) ==
    [queue |-> ListPop(queue, index), ret |-> RetQueue]

\* return active_queue.pop(index): the queue after it and the value returned
QueueRemove(queue, index) ==
    [queue |-> ListPop(queue, index), ret |-> RetTicket(ListGet(queue, index))]

\* as QueueClear, the local name rebound (active_queue = []) and the list left as it was
QueueClearRebind(queue) == queue

\* what "clear" leaves in the queue
QueueClear(queue) == <<>>

\* the indices passed with "add": none, the first ticket, and one beyond each end
AddIndices == {PyNone, PyInt(0 - 1), PyInt(0), PyInt(Len(tickets))}

RemoveIndices == {PyNone} \cup {PyInt(i) : i \in Indices(active_queue)}

ManageQueue(operation, index) ==
    IF ~PyInStrs(PyStr(operation), valid_operations)
    THEN /\ result' = Raise("manage_queue", "ValueError",
                            "Invalid operation. Must be one of: add, remove, clear")
         /\ UNCHANGED <<store, nmut>>
    ELSE IF operation = "add"
    THEN IF index.k = "none"
         THEN /\ result' = Raise("manage_queue", "ValueError",
                                 "Index is required for add operation")
              /\ UNCHANGED <<store, nmut>>
         ELSE IF IndexOutOfRange(index.n, tickets)
         THEN /\ result' = Raise("manage_queue", "IndexError", "Ticket index out of range")
              /\ UNCHANGED <<store, nmut>>
         ELSE IF QueueIsFull(active_queue)
         THEN /\ result' = Raise("manage_queue", "ValueError",
                                 "Active queue is at maximum capacity (5 tickets)")
              /\ UNCHANGED <<store, nmut>>
         ELSE LET new == QueueAppend(heap, active_queue, ListGet(tickets, index.n))
              IN  /\ heap' = new.heap
                  /\ active_queue' = new.queue
                  /\ queue_src' = Append(queue_src, ListGet(tickets, index.n))
                  /\ result' = Ok("manage_queue", RetQueue)
                  /\ UNCHANGED <<tickets, escalated, nmut>>
    ELSE IF operation = "remove"
    THEN IF index.k = "none"
         THEN /\ result' = Raise("manage_queue", "ValueError",
                                 "Index is required for remove operation")
              /\ UNCHANGED <<store, nmut>>
         ELSE IF IndexOutOfRange(index.n, active_queue)
         THEN /\ result' = Raise("manage_queue", "IndexError", "Queue index out of range")
              /\ UNCHANGED <<store, nmut>>
         ELSE LET new == QueueRemove(active_queue, index.n)
              IN  /\ active_queue' = new.queue
                  /\ queue_src' = ListPop(queue_src, index.n)
                  /\ result' = Ok("manage_queue", new.ret)
                  /\ UNCHANGED <<heap, tickets, escalated, nmut>>
    ELSE /\ active_queue' = QueueClear(active_queue)
         /\ queue_src' = <<>>
         /\ result' = Ok("manage_queue", RetQueue)
         /\ UNCHANGED <<heap, tickets, escalated, nmut>>

(***************************************************************************)
(* update_ticket(tickets, index, field, value)                             *)
(***************************************************************************)
valid_fields == <<"status", "priority", "type">>

\* the try block of the priority branch: int(value), then the range check whose
\* bare ValueError the except clause catches like the one int() raises
PriorityOf(value) ==
    IF IntOf(value).exc = "TypeError"
    THEN [exc |-> "TypeError", msg |-> "int() argument must be a string or a number", n |-> 0]
    ELSE IF IntOf(value).exc = "ValueError" \/ IntOf(value).n < 1 \/ IntOf(value).n > 4
    THEN [exc |-> "ValueError", msg |-> "Priority must be an integer between 1 and 4", n |-> 0]
    ELSE [exc |-> "", msg |-> "", n |-> IntOf(value).n]

\* the exception update_ticket raises for a valid index, "" when it raises none
UpdateError(field, value) ==
    IF ~PyInStrs(PyStr(field), valid_fields)
    THEN [exc |-> "ValueError", msg |-> "Invalid field. Must be one of: status, priority, type"]
    ELSE IF field = "status"
    THEN IF ~PyInStrs(value, valid_statuses)
         THEN [exc |-> "ValueError",
               msg |-> "Invalid status. Must be one of: new, open, resolved, closed"]
         ELSE [exc |-> "", msg |-> ""]
    ELSE IF field = "priority"
    THEN [exc |-> PriorityOf(value).exc, msg |-> PriorityOf(value).msg]
    ELSE IF ~PyInStrs(value, valid_types)
         THEN [exc |-> "ValueError",
               msg |-> "Invalid type. Must be one of: technical, billing, general, account, feature"]
         ELSE [exc |-> "", msg |-> ""]

\* the value the assignment ticket[field] = ... stores
StoredValue(field, value) ==
    IF field = "priority" THEN PyInt(PriorityOf(value).n) ELSE value

\* ticket[field] = v on the dict behind ref: the dict is changed in place
SetField(h, ref, field, v) == [h EXCEPT ![ref][field] = v]

\* as UpdateTicket, the priority stored as soon as int() returns, before the range check
UpdateTicketStoreFirst(index, field, value) ==
    IF IndexOutOfRange(index, tickets)
    THEN /\ result' = Raise("update_ticket", "IndexError", "Ticket index out of range")
         /\ UNCHANGED <<store, nmut>>
    ELSE IF UpdateError(field, value).exc # ""
    THEN /\ result' = Raise("update_ticket", UpdateError(field, value).exc,
                            UpdateError(field, value).msg)
         /\ heap' = IF field = "priority" /\ IntOf(value).exc = ""
                    THEN SetField(heap, ListGet(tickets, index), field, PyInt(IntOf(value).n))
                    ELSE heap
         /\ UNCHANGED <<tickets, escalated, active_queue, queue_src, nmut>>
    ELSE /\ nmut < MaxMut
         /\ heap' = SetField(heap, ListGet(tickets, index), field, StoredValue(field, value))
         /\ result' = Ok("update_ticket", RetTicket(ListGet(tickets, index)))
         /\ nmut' = nmut + 1
         /\ UNCHANGED <<tickets, escalated, active_queue, queue_src>>

UpdateTicket(index, field, value) ==
    IF IndexOutOfRange(index, tickets)
    THEN /\ result' = Raise("update_ticket", "IndexError", "Ticket index out of range")
         /\ UNCHANGED <<store, nmut>>
    ELSE IF UpdateError(field, value).exc # ""
    THEN /\ result' = Raise("update_ticket", UpdateError(field, value).exc,
                            UpdateError(field, value).msg)
         /\ UNCHANGED <<store, nmut>>
    ELSE /\ nmut < MaxMut
         /\ heap' = SetField(heap, ListGet(tickets, index), field, StoredValue(field, value))
         /\ result' = Ok("update_ticket", RetTicket(ListGet(tickets, index)))
         /\ nmut' = nmut + 1
         /\ UNCHANGED <<tickets, escalated, active_queue, queue_src>>

(***************************************************************************)
(* The calls of a session, in any order (main's menu makes one call per    *)
(* choice).  Spec is the whole store with the queue, each call drawn from  *)
(* a few inputs at the ends of its domain; SpecQuery leaves the queue out  *)
(* and draws add_ticket, remove_ticket and the queries from wider sets.    *)
(***************************************************************************)
\* the first and last index of a list, and one beyond each end
EndIndices(list) == {0 - 1, 0, Len(list) - 1, Len(list)}

SomeTickets ==
    {BaseTicket,
     With(BaseTicket, "priority", PyBool(TRUE)),
     With(BaseTicket, "priority", PyInt(0)),
     With(BaseTicket, "priority", PyStr("2")),
     With(BaseTicket, "type", PyStr("bogus")),
     With(BaseTicket, "status", PyStr("pending")),
     Without(BaseTicket, "id"),
     Without(BaseTicket, "status")}

SomeUpdates ==
    {<<0, u[1], u[2]>> :
        u \in { <<"status", PyStr("resolved")>>, <<"status", PyStr("pending")>>,
                <<"priority", PyStr("3")>>, <<"priority", PyStr("7")>>,
                <<"priority", PyStr("abc")>>, <<"priority", PyNone>>,
                <<"type", PyStr("general")>>, <<"type", PyStr("bogus")>>,
                <<"title", PyStr("abc")>> }}
    \cup {<<i, "status", PyStr("resolved")>> : i \in EndIndices(tickets)}

SomeFilters ==
    {<<"status", PyStr("open")>>, <<"priority", PyStr("abc")>>, <<"owner", PyStr("abc")>>}

Next ==
    \/ \E ticket \in SomeTickets : AddTicket(ticket)
    \/ \E index \in EndIndices(tickets) : RemoveTicket(index)
    \/ \E key \in {"priority", "title"} : SortTickets(key)
    \/ \E f \in SomeFilters : FilterTickets(f[1], f[2])
    \/ CombineQueues
    \/ ProcessEscalated
    \/ \E level \in {PyInt(1), PyInt(5)} : GetPriorityTickets(level)
    \/ \E index \in AddIndices : ManageQueue("add", index)
    \/ \E index \in RemoveIndices : ManageQueue("remove", index)
    \/ \E operation \in {"clear", "bogus"} : ManageQueue(operation, PyNone)
    \/ \E u \in SomeUpdates : UpdateTicket(u[1], u[2], u[3])

Spec == Init /\ [][Next]_vars

NextQuery ==
    \/ \E ticket \in TicketInputs : AddTicket(ticket)
    \/ \E index \in Indices(tickets) : RemoveTicket(index)
    \/ \E u \in SomeUpdates : UpdateTicket(u[1], u[2], u[3])
    \/ ProcessEscalated
    \/ \E key \in SortKeys : SortTickets(key)
    \/ \E f \in FilterInputs : FilterTickets(f[1], f[2])
    \/ CombineQueues
    \/ \E level \in PriorityLevels : GetPriorityTickets(level)

SpecQuery == Init /\ [][NextQuery]_vars

(***************************************************************************)
(* get_formatted_ticket(ticket) and display_data(data, data_type)          *)
(***************************************************************************)
\* the exception priority_indicators[ticket["priority"] - 1] raises, "" when it raises
\* none: a list index must be an int, and one of the four positions or their negatives
FormatError(ticket) ==
    IF ~IsInstanceInt(ticket.priority) THEN "TypeError"
    ELSE IF ticket.priority.n - 1 < 0 - 4 \/ ticket.priority.n - 1 > 3 THEN "IndexError"
    ELSE ""

\* the exception display_data raises while it prints the list, "" when it raises none
DisplayError(h, list) ==
    LET bad == {i \in 1..Len(list) : FormatError(h[list[i]]) # ""}
    IN  IF bad = {} THEN "" ELSE FormatError(h[list[Min(bad)]])

(***************************************************************************)
(* main(): the console session.  The session is over when result.op is     *)
(* "main": status "ok" after choice 0, the exception's name when an         *)
(* exception left main().  Every prompt's answer is a text.                 *)
(***************************************************************************)
\* while running: the menu prompt is reached
running == result.op # "main"

\* print(msg) with no call to the store, and back to the menu
Say(msg) == [op |-> "print", status |-> "ok", msg |-> msg, ret |-> RetNone]

\* an exception raised where no except clause of main() catches it
Fatal(exc, msg) ==
    /\ result' = Raise("main", exc, msg)
    /\ UNCHANGED <<store, nmut>>

MenuChoices == {"1", "2", "3", "4", "5", "6", "7", "0"}

\* choice "1": display_data(tickets), outside any try
ConsoleView ==
    /\ running
    /\ IF DisplayError(heap, tickets) # ""
       THEN Fatal(DisplayError(heap, tickets), "")
       ELSE /\ result' = Ok("display_data", RetNone)
            /\ UNCHANGED <<store, nmut>>

\* choice "2", op.lower() == "add": priority = int(input(...)) outside the try,
\* then add_ticket under `except ValueError`
ConsoleAdd(op, type, priority, status) ==
    /\ running
    /\ Lower(op) = Chars("add")
    /\ IF IntOfStr(priority).exc # ""
       THEN Fatal(IntOfStr(priority).exc, "invalid literal for int() with base 10")
       ELSE AddTicket(Ticket("T006", "Crash on login", type, IntOfStr(priority).n, status))

\* choice "2", op.lower() == "remove": index = int(input(...)) outside the try,
\* then remove_ticket under `except IndexError`
ConsoleRemove(op, index) ==
    /\ running
    /\ Lower(op) = Chars("remove")
    /\ IF IntOfStr(index).exc # ""
       THEN Fatal(IntOfStr(index).exc, "invalid literal for int() with base 10")
       ELSE RemoveTicket(IntOfStr(index).n)

\* choice "2" with any other op: neither branch runs, back to the menu
ConsoleAddRemoveOther(op) ==
    /\ running
    /\ Lower(op) # Chars("add") /\ Lower(op) # Chars("remove")
    /\ result' = Say("")
    /\ UNCHANGED <<store, nmut>>

\* choice "3": sort_tickets and display_data of the sorted list under `except ValueError`
ConsoleSort(key) ==
    /\ running
    /\ IF PyInStrs(PyStr(key), valid_keys) /\ DisplayError(heap, tickets) # ""
       THEN Fatal(DisplayError(heap, tickets), "")
       ELSE SortTickets(key)

\* choice "4": filter_tickets on the text entered, under `except ValueError`
ConsoleFilter(filter_type, value) ==
    /\ running
    /\ LET out == FilterOutcome(heap, tickets, filter_type, PyStr(value))
       IN  IF out.status \notin {"ok", "ValueError"}
           THEN Fatal(out.status, out.msg)
           ELSE /\ result' = out
                /\ UNCHANGED <<store, nmut>>

\* choice "5", queue_op "1": index = int(input(...)) outside the try, then
\* manage_queue "add" under `except (ValueError, IndexError)`
ConsoleQueueAdd(index) ==
    /\ running
    /\ IF IntOfStr(index).exc # ""
       THEN Fatal(IntOfStr(index).exc, "invalid literal for int() with base 10")
       ELSE ManageQueue("add", PyInt(IntOfStr(index).n))

\* choice "5", queue_op "2": an empty queue is reported and the loop continues;
\* otherwise index = int(input(...)) outside the try, then manage_queue "remove"
\* under `except IndexError`
ConsoleQueueRemove(index) ==
    /\ running
    /\ IF active_queue = <<>>
       THEN /\ result' = Say("Queue is empty.")
            /\ UNCHANGED <<store, nmut>>
       ELSE IF IntOfStr(index).exc # ""
       THEN Fatal(IntOfStr(index).exc, "invalid literal for int() with base 10")
       ELSE ManageQueue("remove", PyInt(IntOfStr(index).n))

\* choice "5", queue_op "3": display_data(active_queue, "queue"), outside any try
ConsoleQueueView ==
    /\ running
    /\ IF DisplayError(heap, active_queue) # ""
       THEN Fatal(DisplayError(heap, active_queue), "")
       ELSE /\ result' = Ok("display_data", RetNone)
            /\ UNCHANGED <<store, nmut>>

\* choice "5", queue_op "4": manage_queue "clear", outside any try
ConsoleQueueClear ==
    /\ running
    /\ ManageQueue("clear", PyNone)

\* choice "5" with any other queue_op: no branch runs, back to the menu
ConsoleQueueOther(queue_op) ==
    /\ running
    /\ queue_op \notin {"1", "2", "3", "4"}
    /\ result' = Say("")
    /\ UNCHANGED <<store, nmut>>

\* choice "6": combine_queues and display_data(combined), outside any try; the
\* combined list replaces tickets when confirm.lower() == "y"
ConsoleProcessEscalated(confirm) ==
    /\ running
    /\ IF DisplayError(heap, Combined(tickets, escalated)) # ""
       THEN Fatal(DisplayError(heap, Combined(tickets, escalated)), "")
       ELSE IF Lower(confirm) = Chars("y")
       THEN ProcessEscalated
       ELSE CombineQueues

\* choice "7": index = int(input(...)) outside the try, then update_ticket on the
\* texts entered under `except (ValueError, IndexError)`
ConsoleUpdate(index, field, value) ==
    /\ running
    /\ IF IntOfStr(index).exc # ""
       THEN Fatal(IntOfStr(index).exc, "invalid literal for int() with base 10")
       ELSE IF /\ ~IndexOutOfRange(IntOfStr(index).n, tickets)
               /\ UpdateError(field, PyStr(value)).exc \notin {"", "ValueError", "IndexError"}
       THEN Fatal(UpdateError(field, PyStr(value)).exc, UpdateError(field, PyStr(value)).msg)
       ELSE UpdateTicket(IntOfStr(index).n, field, PyStr(value))

\* choice "0": running = False, the loop ends
ConsoleExit ==
    /\ running
    /\ result' = Ok("main", RetNone)
    /\ UNCHANGED <<store, nmut>>

\* any other choice
ConsoleInvalidChoice(choice) ==
    /\ running
    /\ choice \notin MenuChoices
    /\ result' = Say("Invalid choice. Please try again.")
    /\ UNCHANGED <<store, nmut>>

\* the texts entered at an index prompt and at the priority prompt
IndexTexts == {"0", "7", "-1", "abc", ""}

PriorityTexts == {"2", " 4 ", "7", "abc"}

NextConsole ==
    \/ ConsoleView
    \/ \E type \in {"general", "bogus"}, priority \in PriorityTexts, status \in {"new", "pending"} :
          ConsoleAdd("add", type, priority, status)
    \/ \E op \in {"remove", "REMOVE"}, index \in IndexTexts : ConsoleRemove(op, index)
    \/ ConsoleAddRemoveOther("bogus")
    \/ \E key \in {"priority", "title"} : ConsoleSort(key)
    \/ \E f \in {<<"status", "open">>, <<"priority", "2">>, <<"priority", "abc">>,
                 <<"keyword", "PAY">>, <<"owner", "abc">>} : ConsoleFilter(f[1], f[2])
    \/ \E index \in IndexTexts : ConsoleQueueAdd(index)
    \/ \E index \in IndexTexts : ConsoleQueueRemove(index)
    \/ ConsoleQueueView
    \/ ConsoleQueueClear
    \/ ConsoleQueueOther("7")
    \/ \E confirm \in {"y", "Y", "n"} : ConsoleProcessEscalated(confirm)
    \/ \E index \in IndexTexts,
          u \in {<<"status", "resolved">>, <<"status", "pending">>, <<"priority", "3">>,
                 <<"priority", "abc">>, <<"title", "abc">>} :
          ConsoleUpdate(index, u[1], u[2])
    \/ ConsoleExit
    \/ \E choice \in {"abc", "", " 4 ", "1"} : ConsoleInvalidChoice(choice)

SpecConsole == Init /\ [][NextConsole]_vars

(***************************************************************************)
(* The data model of the specification: what a ticket in a collection is.  *)
(***************************************************************************)
TicketType == {"technical", "billing", "general", "account", "feature"}

TicketStatus == {"new", "open", "resolved", "closed"}

\* type and status are strings of their sets, priority is an integer (Python's bool
\* is an int: True is the integer 1) in 1..4
WellFormed(t) ==
    /\ t.type.k = "str" /\ t.type.s \in TicketType
    /\ t.priority.k \in {"int", "bool"} /\ t.priority.n \in 1..4
    /\ t.status.k = "str" /\ t.status.s \in TicketStatus

Failed == result.status \in {"ValueError", "IndexError"}

\* C1: every ticket held in tickets, escalated or active_queue has its type in the
\* five types, its priority an integer in 1..4 and its status in the four statuses.
C1_HeldTicketsWellFormed ==
    \A list \in {tickets, escalated, active_queue} :
        \A i \in 1..Len(list) : WellFormed(heap[list[i]])

\* C1 witness: update_ticket has changed a ticket that tickets and the queue hold,
\* after the queue took it.
C1_Witness ==
    /\ result.op = "update_ticket" /\ result.status = "ok"
    /\ heap[result.ret.ref].priority = PyInt(3)
    /\ \E j \in 1..Len(active_queue) : active_queue[j] = result.ret.ref
    /\ \E i \in 1..Len(tickets) : tickets[i] = result.ret.ref

\* C2: the active queue never holds more than 5 entries.
C2_QueueAtMostFive == Len(active_queue) <= 5

\* C2 witness: the fifth add has succeeded and the queue holds 5 entries.
C2_Witness ==
    /\ result.op = "manage_queue" /\ result.status = "ok"
    /\ result.ret.kind = "active_queue"
    /\ Len(active_queue) = 5

\* C3: a call that fails with ValueError or IndexError leaves tickets, escalated,
\* active_queue and every field of every ticket dict as they were before the call.
C3_NoMutationOnFailure ==
    [][(result'.status \in {"ValueError", "IndexError"})
          => UNCHANGED <<heap, tickets, escalated, active_queue>>]_vars

\* C3 witness: update_ticket has failed on a ticket the queue holds (a priority out of
\* range, after int() accepted it).
C3_Witness ==
    /\ result.op = "update_ticket" /\ Failed
    /\ result.msg = "Priority must be an integer between 1 and 4"
    /\ Len(active_queue) > 0
    /\ heap = InitTickets \o InitEscalated

\* C4: a queue entry and the tickets entry it was added from have identical field
\* values in every reachable state (an update through tickets shows in the queue).
C4_QueueSharesRecord ==
    /\ Len(queue_src) = Len(active_queue)
    /\ \A j \in 1..Len(active_queue) : heap[active_queue[j]] = heap[queue_src[j]]

\* C4 witness: tickets[0] was added to the queue and then updated to "resolved";
\* the queue entry shows the new status.
C4_Witness ==
    /\ result.op = "update_ticket" /\ result.status = "ok"
    /\ result.ret.ref = tickets[1]
    /\ \E j \in 1..Len(active_queue) :
          /\ queue_src[j] = tickets[1]
          /\ heap[active_queue[j]].status = PyStr("resolved")
          /\ (InitTickets \o InitEscalated)[queue_src[j]].status # PyStr("resolved")

\* C5: with a valid index, add succeeds and lengthens the queue by one while it holds
\* fewer than 5 entries, and raises ValueError leaving the 5 entries when it holds 5;
\* clear leaves the queue empty (so the add after it succeeds and leaves one entry).
C5_CapacityCycle ==
    [][/\ \A i \in 0..(Len(tickets) - 1) :
             ManageQueue("add", PyInt(i)) =>
                 IF Len(active_queue) < 5
                 THEN /\ result'.status = "ok"
                      /\ Len(active_queue') = Len(active_queue) + 1
                 ELSE /\ result'.status = "ValueError"
                      /\ Len(active_queue') = 5
                      /\ active_queue' = active_queue
       /\ ManageQueue("clear", PyNone) =>
             /\ result'.status = "ok"
             /\ active_queue' = <<>>]_vars

\* C5 witness: the sixth add has been refused and the queue still holds 5 entries.
C5_Witness ==
    /\ result.op = "manage_queue" /\ result.status = "ValueError"
    /\ result.msg = "Active queue is at maximum capacity (5 tickets)"
    /\ Len(active_queue) = 5

HasAllFields(t) == {"id", "title", "type", "priority", "status"} \subseteq DOMAIN t

\* C6: add_ticket succeeds exactly when the ticket has all five fields and is well
\* formed; then tickets is the previous tickets followed by that ticket, the earlier
\* tickets unchanged; otherwise it raises ValueError (and changes nothing).
C6_AddTicket ==
    [][\A t \in TicketInputs :
          (result'.op = "add_ticket" /\ AddTicket(t)) =>
              IF HasAllFields(t) /\ WellFormed(t)
              THEN /\ result'.status = "ok"
                   /\ Len(tickets') = Len(tickets) + 1
                   /\ SubSeq(tickets', 1, Len(tickets)) = tickets
                   /\ heap'[tickets'[Len(tickets')]] = t
                   /\ \A i \in 1..Len(tickets) : heap'[tickets[i]] = heap[tickets[i]]
              ELSE /\ result'.status = "ValueError"
                   /\ tickets' = tickets
                   /\ heap' = heap]_vars

\* C6 witness: a valid ticket has been added behind the five seed tickets.
C6_Witness ==
    /\ result.op = "add_ticket" /\ result.status = "ok"
    /\ Len(tickets) = 6
    /\ SubSeq(tickets, 1, 5) = <<1, 2, 3, 4, 5>>
    /\ heap[tickets[6]] = With(BaseTicket, "priority", PyInt(4))

\* C7: remove_ticket with 0 <= i < length returns the ticket that was at position i
\* and leaves tickets without exactly that position, the rest in order; with i < 0
\* or i >= length it raises IndexError (and tickets is as before).
C7_RemoveTicket ==
    [][\A i \in Indices(tickets) :
          (result'.op = "remove_ticket" /\ RemoveTicket(i)) =>
              IF 0 <= i /\ i < Len(tickets)
              THEN /\ result'.status = "ok"
                   /\ result'.ret.kind = "ticket"
                   /\ result'.ret.ref = tickets[i + 1]
                   /\ Len(tickets') = Len(tickets) - 1
                   /\ \A k \in 1..i : tickets'[k] = tickets[k]
                   /\ \A k \in (i + 1)..(Len(tickets) - 1) : tickets'[k] = tickets[k + 1]
                   /\ heap' = heap
              ELSE /\ result'.status = "IndexError"
                   /\ tickets' = tickets]_vars

\* C7 witness: the ticket at index 2 of the seed list has been removed and returned.
C7_Witness ==
    /\ result.op = "remove_ticket" /\ result.status = "ok"
    /\ result.ret.ref = 3
    /\ tickets = <<1, 2, 4, 5>>

\* a <= b for strings: lexicographic by code point
RECURSIVE LexLeq(_, _)
LexLeq(a, b) ==
    IF a = <<>> THEN TRUE
    ELSE IF b = <<>> THEN FALSE
    ELSE IF Head(a) = Head(b) THEN LexLeq(Tail(a), Tail(b))
    ELSE Ord(Head(a)) < Ord(Head(b))

KeyLeq(h, key, r1, r2) ==
    IF key = "priority" THEN h[r1].priority.n <= h[r2].priority.n
    ELSE LexLeq(Chars(h[r1][key].s), Chars(h[r2][key].s))

Distinct(list) == Cardinality({list[i] : i \in 1..Len(list)}) = Len(list)

Pos(list, r) == CHOOSE k \in 1..Len(list) : list[k] = r

\* out is input rearranged, ascending by key, tickets with equal keys in input order
IsStableSorted(h, key, input, out) ==
    /\ Distinct(input)
    /\ Len(out) = Len(input)
    /\ {out[i] : i \in 1..Len(out)} = {input[i] : i \in 1..Len(input)}
    /\ \A i, j \in 1..Len(out) : i < j => KeyLeq(h, key, out[i], out[j])
    /\ \A i, j \in 1..Len(input) :
          (i < j /\ KeyLeq(h, key, input[i], input[j]) /\ KeyLeq(h, key, input[j], input[i]))
              => Pos(out, input[i]) < Pos(out, input[j])

\* C8: sort_tickets with a key in {id, priority, status, type} returns a new list, a
\* permutation of tickets ascending by that field and stable, and leaves tickets as
\* it was; any other key raises ValueError.
C8_SortTickets ==
    [][\A key \in SortKeys :
          (result'.op = "sort_tickets" /\ SortTickets(key)) =>
              IF key \in {"id", "priority", "status", "type"}
              THEN /\ result'.status = "ok"
                   /\ result'.ret.kind = "newlist"
                   /\ IsStableSorted(heap, key, tickets, result'.ret.list)
                   /\ tickets' = tickets
                   /\ heap' = heap
              ELSE result'.status = "ValueError"]_vars

\* C8 witness: the seed list sorted by priority, T001 before T005 (both priority 2).
C8_Witness ==
    /\ result.op = "sort_tickets" /\ result.status = "ok"
    /\ result.ret.list = <<3, 1, 5, 2, 4>>
    /\ tickets = <<1, 2, 3, 4, 5>>

\* the integer each coercible priority string of FilterInputs stands for
ExpectedInt(s) == CASE s = "2" -> 2 [] s = " 4 " -> 4 [] s = "7" -> 7

Coercible == {"2", " 4 ", "7"}

\* the titles of the model that contain each keyword of FilterInputs, case ignored
TitlesWith(kw) ==
    CASE kw = "crash" -> {"Application crashes", "Crash on login"}
      [] kw = "PAY" -> {"Payment not processing"}
      [] kw = "zzz" -> {}

Matches(h, r, filter_type, value) ==
    CASE filter_type \in {"type", "status"} -> h[r][filter_type].s = value.s
      [] filter_type = "priority" ->
            h[r].priority.n = (IF value.k = "str" THEN ExpectedInt(value.s) ELSE value.n)
      [] filter_type = "keyword" -> h[r].title.s \in TitlesWith(value.s)

\* out is exactly the entries of input that match, in input order
IsFiltered(h, input, out, filter_type, value) ==
    /\ Distinct(input) /\ Distinct(out)
    /\ {out[i] : i \in 1..Len(out)}
          = {input[i] : i \in {k \in 1..Len(input) : Matches(h, input[k], filter_type, value)}}
    /\ \A a, b \in 1..Len(out) : a < b => Pos(input, out[a]) < Pos(input, out[b])

\* C9: filter_tickets returns a new list, exactly the matching tickets in original
\* order, tickets unmodified; type and status match by equality and a value outside
\* the enum gives an empty list; a priority string is coerced to an integer and
\* matched exactly, a non-coercible one raises ValueError; a filter type outside
\* {type, status, priority, keyword} raises ValueError.
C9_FilterTickets ==
    [][\A f \in FilterInputs :
          (result'.op = "filter_tickets" /\ FilterTickets(f[1], f[2])) =>
              /\ tickets' = tickets
              /\ heap' = heap
              /\ IF f[1] \notin {"type", "status", "priority", "keyword"}
                 THEN result'.status = "ValueError"
                 ELSE IF f[1] = "priority" /\ f[2].k = "str" /\ f[2].s \notin Coercible
                 THEN result'.status = "ValueError"
                 ELSE (f[2].k = "str" \/ (f[1] = "priority" /\ f[2].k = "int")) =>
                         /\ result'.status = "ok"
                         /\ result'.ret.kind = "newlist"
                         /\ IsFiltered(heap, tickets, result'.ret.list, f[1], f[2])
                         /\ (f[1] = "type" /\ f[2].s \notin TicketType)
                               => result'.ret.list = <<>>
                         /\ (f[1] = "status" /\ f[2].s \notin TicketStatus)
                               => result'.ret.list = <<>>]_vars

\* C9 witness: the keyword filter has found "Application crashes" for "crash" in the
\* seed list.
C9_Witness ==
    /\ result.op = "filter_tickets" /\ result.status = "ok"
    /\ result.ret.list = <<3>>
    /\ tickets = <<1, 2, 3, 4, 5>>
    /\ heap[3].title = PyStr("Application crashes")

ExpectedPriority(value) ==
    IF value = PyStr("3") THEN 3
    ELSE IF value = PyStr("7") THEN 7
    ELSE 0

\* C11: update_ticket on the priority of a valid index: when the value cannot be
\* coerced to an integer or the integer is outside 1..4 it raises ValueError (one
\* message for both causes) and the priority is as before; otherwise the priority
\* becomes the coerced integer and the updated ticket is returned.
C11_PriorityUpdate ==
    [][\A u \in SomeUpdates :
          (/\ result'.op = "update_ticket"
           /\ u[2] = "priority"
           /\ 0 <= u[1] /\ u[1] < Len(tickets)
           /\ UpdateTicket(u[1], u[2], u[3])) =>
              IF ExpectedPriority(u[3]) \in 1..4
              THEN /\ result'.status = "ok"
                   /\ result'.ret.kind = "ticket"
                   /\ result'.ret.ref = tickets[u[1] + 1]
                   /\ heap'[tickets[u[1] + 1]].priority = PyInt(ExpectedPriority(u[3]))
              ELSE /\ result'.status = "ValueError"
                   /\ result'.msg = "Priority must be an integer between 1 and 4"
                   /\ heap' = heap]_vars

\* the records a list holds
Held(list) == {list[i] : i \in 1..Len(list)}

\* C12 as stated: in every reachable state every entry of active_queue is a record
\* that tickets holds.
C12_QueueEntriesInTickets == Held(active_queue) \subseteq Held(tickets)

\* C12 amended: a record enters active_queue only while tickets holds it, and a
\* queue entry stops being held by tickets only through remove_ticket, which leaves
\* the queue as it is; an entry tickets no longer holds came from an earlier state.
C12_QueueEntriesWereInTickets ==
    [][/\ \A r \in Held(active_queue') \ Held(active_queue) : r \in Held(tickets)
       /\ \A r \in Held(active_queue') \cap Held(active_queue) :
             (r \in Held(tickets) /\ r \notin Held(tickets')) =>
                 /\ result'.op = "remove_ticket" /\ result'.status = "ok"
                 /\ result'.ret.ref = r
                 /\ active_queue' = active_queue]_vars

\* C12 witness: remove_ticket has just removed from tickets a record the queue holds.
C12_Witness ==
    /\ result.op = "remove_ticket" /\ result.status = "ok"
    /\ result.ret.ref \in Held(active_queue)
    /\ result.ret.ref \notin Held(tickets)

\* C13: in the console session no error is fatal: whatever the user enters, the
\* session ends only by choice 0, never by an exception leaving main().
C13_NoErrorIsFatal == result.op = "main" => result.status = "ok"

=============================================================================
